---- MODULE Spec2Model ----
(***************************************************************************)
(* Model of run_pytest_aider.py: the loop of main() around the two child   *)
(* processes (pytest, aider), the log file it writes, and the assembly and *)
(* trimming of the message handed to aider.                                *)
(*                                                                         *)
(* Text is a sequence of one-character strings; "\n" is the line break.    *)
(* The long literal sentences of the message and of INSTRUCTION_LIST are   *)
(* abbreviated to a few characters each; their line structure (where the   *)
(* "\n" are, and that no hint holds one) is kept as in the source.         *)
(*                                                                         *)
(* Spec is the tool as it runs; FairSpec adds that it keeps running;       *)
(* HelperSpec calls get_tail and get_error_summary on their own, on every  *)
(* text of a few lines.                                                    *)
(***************************************************************************)
EXTENDS Integers, Sequences, FiniteSets, TLC

\* ------------------------------------------------------------------ bounds
MaxIter == 3
MaxMsgLen == 22
MaxLines == 3
MaxTail == 4

\* ------------------------------------------------------- python primitives
NL == "\n"

\* as RangeLen, with a negative n counted as its absolute value
RangeLen_Abs(n) == IF n > 0 THEN n ELSE 0 - n

\* len(range(n)): the number of passes of "for i in range(n)"
RangeLen(n) == IF n > 0 THEN n ELSE 0

\* s[start:] with Python's index rules (negative start counts from the end,
\* out-of-range indexes are clamped)
SliceFrom(s, start) ==
    LET n == Len(s)
        b == IF start < 0
             THEN (IF n + start > 0 THEN n + start ELSE 0)
             ELSE (IF start < n THEN start ELSE n)
    IN  SubSeq(s, b + 1, n)

\* s.find(c): lowest index (0-based) of the character c, -1 when absent
Find(s, c) ==
    IF \E k \in 1..Len(s) : s[k] = c
    THEN (CHOOSE k \in 1..Len(s) : s[k] = c /\ \A j \in 1..(k - 1) : s[j] # c) - 1
    ELSE -1

\* s.startswith(p)
StartsWith(s, p) == Len(s) >= Len(p) /\ SubSeq(s, 1, Len(p)) = p

\* p in s
Contains(s, p) ==
    \E k \in 0..(Len(s) - Len(p)) : SubSeq(s, k + 1, k + Len(p)) = p

UpperChars == <<"A", "D", "E", "F", "I", "L", "O", "R">>
LowerChars == <<"a", "d", "e", "f", "i", "l", "o", "r">>

\* s.lower(), on the letters the texts of this model use
LowerChar(c) ==
    IF \E k \in 1..Len(UpperChars) : UpperChars[k] = c
    THEN LowerChars[CHOOSE k \in 1..Len(UpperChars) : UpperChars[k] = c]
    ELSE c

Lower(s) == [k \in 1..Len(s) |-> LowerChar(s[k])]

\* s.splitlines(): the lines of s without their line breaks; a final line
\* break does not open a further (empty) line
RECURSIVE SplitLines(_)
SplitLines(s) ==
    IF s = <<>> THEN <<>>
    ELSE LET p == Find(s, NL)
         IN  IF p = -1 THEN <<s>>
             ELSE <<SubSeq(s, 1, p)>> \o SplitLines(SubSeq(s, p + 2, Len(s)))

\* '\n'.join(lines)
RECURSIVE JoinLines(_)
JoinLines(lines) ==
    IF lines = <<>> THEN <<>>
    ELSE IF Len(lines) = 1 THEN lines[1]
    ELSE lines[1] \o <<NL>> \o JoinLines(Tail(lines))

\* --------------------------------------------------------- child processes
\* what pytest may write to its standard output
StdoutPool ==
    { <<>>,
      <<"o", "k", NL>>,
      <<"E", "R", "R", "O", "R", NL, "b", NL, "F", "A", "I", "L", "E", "D">>,
      <<"=", "=", "=", "F", "a", "i", "l", "e", "d", NL>> }

\* what pytest may write to its standard error
StderrPool ==
    { <<>>,
      <<"w", NL>>,
      <<"F", "A", "I", "L", "E", "D">> }

\* exit codes of a child process that ran
ExitCodes == {0, 1, 2}

\* raised by subprocess.run when the program cannot be started
NoLaunch == -2

\* outcomes of subprocess.run([... "aider" ...], check=True)
AiderOutcomes == ExitCodes \cup {NoLaunch}

\* main()'s "result" before the first run_pytest()
Unset == -1
NoResult == [stdout |-> <<>>, stderr |-> <<>>, returncode |-> Unset]

\* content of pytest_output.txt left by an earlier run of the tool
InitialLogs == { <<>>, <<"z", NL>> }

\* paths of the history directory and what run_aider names inside it
HistoryDir == "pytest_aider"
HistoryFiles == {"pytest_aider/chat_history.md", "pytest_aider/input_history",
                 "pytest_aider/llm_history"}
InitialFs == { {}, {HistoryDir}, {HistoryDir} \cup HistoryFiles }

\* as ensure_pytest_aider_dir, without the mkdir
ensure_pytest_aider_dir_NoMkdir(paths) == paths

\* ensure_pytest_aider_dir(): Path('pytest_aider').mkdir(exist_ok=True), as
\* the paths that exist afterwards
ensure_pytest_aider_dir(paths) == paths \cup {HistoryDir}

\* ------------------------------------------------------------ the message
INSTRUCTION_LIST ==
    << <<"p", "a", "t">>,
       <<"t", "e">>,
       <<"c", "o">>,
       <<"r", "m">>,
       <<"r", "f">> >>

\* as get_error_summary, matching 'failed' case-sensitively
get_error_summary_CaseSensitive(res) ==
    LET IsError(line) == StartsWith(line, <<"F", "A", "I", "L", "E", "D">>)
                         \/ StartsWith(line, <<"E", "R", "R", "O", "R">>)
        IsSummary(line) == Contains(line, <<"=", "=", "=">>)
                           /\ Contains(line, <<"f", "a", "i", "l", "e", "d">>)
        error_lines == SelectSeq(SplitLines(res.stdout), IsError)
        summary_lines == SelectSeq(SplitLines(res.stdout), IsSummary)
    IN  JoinLines(error_lines \o summary_lines)

\* get_error_summary(result)
get_error_summary(res) ==
    LET IsError(line) == StartsWith(line, <<"F", "A", "I", "L", "E", "D">>)
                         \/ StartsWith(line, <<"E", "R", "R", "O", "R">>)
        IsSummary(line) == Contains(line, <<"=", "=", "=">>)
                           /\ Contains(Lower(line), <<"f", "a", "i", "l", "e", "d">>)
        error_lines == SelectSeq(SplitLines(res.stdout), IsError)
        summary_lines == SelectSeq(SplitLines(res.stdout), IsSummary)
    IN  JoinLines(error_lines \o summary_lines)

\* lines[-n:] with Python's index rules (-0 is 0: the whole list)
LastLines(lines, n) ==
    LET len == Len(lines)
        b == IF 0 - n < 0
             THEN (IF len - n > 0 THEN len - n ELSE 0)
             ELSE (IF 0 - n < len THEN 0 - n ELSE len)
    IN  SubSeq(lines, b + 1, len)

\* as get_tail, ending the returned text with a line break
get_tail_EndsWithBreak(text, n) ==
    LET lines == SplitLines(text)
    IN  IF lines # <<>> THEN JoinLines(LastLines(lines, n)) \o <<NL>> ELSE <<>>

\* get_tail(text, n)
get_tail(text, n) ==
    LET lines == SplitLines(text)
    IN  IF lines # <<>> THEN JoinLines(LastLines(lines, n)) ELSE <<>>

\* result.stdout + "\n" + result.stderr, the text main() hands to run_aider
PytestOutput(res) == res.stdout \o <<NL>> \o res.stderr

\* what main() writes to pytest_output.txt
LogText(res) == res.stdout \o res.stderr

\* as AssembleMessage, with the hint put in front of the text
AssembleMessage_HintFirst(pytest_output, error_summary, random_instruction) ==
    random_instruction \o <<NL, NL>>
    \o <<"f", NL, NL>>
    \o <<"e", NL>> \o error_summary \o <<NL, NL>>
    \o <<"o", NL>> \o pytest_output
    \o <<"m">>

\* the message run_aider builds before trimming it
AssembleMessage(pytest_output, error_summary, random_instruction) ==
    <<"f", NL, NL>>
    \o <<"e", NL>> \o error_summary \o <<NL, NL>>
    \o <<"o", NL>> \o pytest_output
    \o <<"m">>
    \o <<NL, NL>> \o random_instruction

\* as TrimMessage, keeping the head (message[:MAX_MESSAGE_LENGTH])
TrimMessage_KeepsHead(msg, maxLen) ==
    IF Len(msg) > maxLen
    THEN SubSeq(msg, 1, IF maxLen > 0 THEN maxLen ELSE 0)
    ELSE msg

\* the trimming of run_aider
TrimMessage(msg, maxLen) ==
    IF Len(msg) > maxLen
    THEN LET tail == SliceFrom(msg, 0 - maxLen)
             first_newline == Find(tail, NL)
         IN  IF first_newline # -1 THEN SliceFrom(tail, first_newline + 1) ELSE tail
    ELSE msg

\* ------------------------------------------------------------------ state
VARIABLES
    MAX_ITERATIONS,       \* args.max_iterations
    MAX_MESSAGE_LENGTH,   \* args.max_message_length
    pc,                   \* where main() is
    i,                    \* the loop variable of main()
    result,               \* main()'s result
    log,                  \* content of pytest_output.txt
    fs,                   \* paths that exist under the working directory
    random_instruction,   \* run_aider's hint (while run_aider is active)
    message,              \* run_aider's message (while run_aider is active)
    state,                \* RUNNING, SUCCEEDED, FIX_FAILED or EXHAUSTED
    notice,               \* the closing line main() printed
    exitStatus,           \* exit status of the process, Unset while it runs
    tests,                \* number of pytest invocations so far
    fixes,                \* number of aider invocations so far
    testCodes,            \* exit codes of the pytest runs, in order
    fixCodes,             \* outcomes of the aider runs, in order
    error_summary,        \* run_aider's error_summary (while it is active)
    fn,                   \* the helper function called on its own, if any
    fn_text,              \* the text given to the helper function
    fn_n,                 \* the line count given to get_tail
    fn_out                \* what the helper function returned

vars == <<MAX_ITERATIONS, MAX_MESSAGE_LENGTH, pc, i, result, log, fs,
          random_instruction, message, state, notice, exitStatus,
          tests, fixes, testCodes, fixCodes, error_summary,
          fn, fn_text, fn_n, fn_out>>

config == <<MAX_ITERATIONS, MAX_MESSAGE_LENGTH>>
history == <<tests, fixes, testCodes, fixCodes>>
helper == <<fn, fn_text, fn_n, fn_out>>

Init ==
    /\ MAX_ITERATIONS \in -1..MaxIter
    /\ MAX_MESSAGE_LENGTH \in -1..MaxMsgLen
    /\ pc = "loop"
    /\ i = 0
    /\ result = NoResult
    /\ log \in InitialLogs
    /\ fs \in InitialFs
    /\ random_instruction = <<>>
    /\ message = <<>>
    /\ state = "RUNNING"
    /\ notice = "none"
    /\ exitStatus = Unset
    /\ tests = 0
    /\ fixes = 0
    /\ testCodes = <<>>
    /\ fixCodes = <<>>
    /\ error_summary = <<>>
    /\ fn = "none"
    /\ fn_text = <<>>
    /\ fn_n = 0
    /\ fn_out = <<>>

\* as StartIteration, with one pass too many (range(MAX_ITERATIONS + 1))
StartIteration_OnePassMore ==
    /\ pc = "loop"
    /\ i <= RangeLen(MAX_ITERATIONS)
    /\ pc' = "pytest"
    /\ tests' = tests + 1
    /\ UNCHANGED <<config, helper, error_summary, i, result, log, fs, random_instruction, message,
                   state, notice, exitStatus, fixes, testCodes, fixCodes>>

\* for i in range(MAX_ITERATIONS): a further pass; run_pytest() starts pytest
StartIteration ==
    /\ pc = "loop"
    /\ i < RangeLen(MAX_ITERATIONS)
    /\ pc' = "pytest"
    /\ tests' = tests + 1
    /\ UNCHANGED <<config, helper, error_summary, i, result, log, fs, random_instruction, message,
                   state, notice, exitStatus, fixes, testCodes, fixCodes>>

\* subprocess.run of run_pytest returns: output captured, any exit code
PytestReturns ==
    /\ pc = "pytest"
    /\ \E out \in StdoutPool, err \in StderrPool, rc \in ExitCodes :
          /\ result' = [stdout |-> out, stderr |-> err, returncode |-> rc]
          /\ testCodes' = Append(testCodes, rc)
    /\ pc' = "write"
    /\ UNCHANGED <<config, helper, error_summary, i, log, fs, random_instruction, message, state,
                   notice, exitStatus, tests, fixes, fixCodes>>

\* as WriteLog, with the write moved into the success branch
WriteLog_OnlyOnSuccess ==
    /\ pc = "write"
    /\ log' = IF result.returncode = 0 THEN LogText(result) ELSE log
    /\ pc' = "check"
    /\ UNCHANGED <<config, helper, error_summary, i, result, fs,
                   random_instruction, message, state, notice, exitStatus,
                   history>>

\* as WriteLog, with the file opened for appending (open(..., "a"))
WriteLog_Appends ==
    /\ pc = "write"
    /\ log' = log \o LogText(result)
    /\ pc' = "check"
    /\ UNCHANGED <<config, helper, error_summary, i, result, fs, random_instruction, message, state,
                   notice, exitStatus, history>>

\* with open("pytest_output.txt", "w") as f: f.write(stdout); f.write(stderr)
WriteLog ==
    /\ pc = "write"
    /\ log' = LogText(result)
    /\ pc' = "check"
    /\ UNCHANGED <<config, helper, error_summary, i, result, fs, random_instruction, message, state,
                   notice, exitStatus, history>>

\* as TestFailed, with aider started and not waited for (Popen): main()
\* goes on to the next pass at once
TestFailed_NotAwaited ==
    /\ pc = "check"
    /\ result.returncode # 0
    /\ fs' = ensure_pytest_aider_dir(fs)
    /\ fixes' = fixes + 1
    /\ i' = i + 1
    /\ pc' = "loop"
    /\ UNCHANGED <<config, helper, error_summary, random_instruction, message,
                   result, log, state, notice, exitStatus, tests, testCodes,
                   fixCodes>>

\* result.returncode != 0: the summary is taken, run_aider builds and trims
\* the message, makes the directory and starts aider
TestFailed ==
    /\ pc = "check"
    /\ result.returncode # 0
    /\ \E k \in 1..Len(INSTRUCTION_LIST), summary \in {get_error_summary(result)} :
          \E msg \in {AssembleMessage(PytestOutput(result), summary,
                                      INSTRUCTION_LIST[k])} :
             /\ error_summary' = summary
             /\ random_instruction' = INSTRUCTION_LIST[k]
             /\ message' = TrimMessage(msg, MAX_MESSAGE_LENGTH)
    /\ fs' = ensure_pytest_aider_dir(fs)
    /\ fixes' = fixes + 1
    /\ pc' = "aider"
    /\ UNCHANGED <<config, helper, i, result, log, state, notice, exitStatus,
                   tests, testCodes, fixCodes>>

\* as AiderSucceeds, skipping a pass of the loop
AiderSucceeds_SkipsAPass ==
    /\ pc = "aider"
    /\ fixCodes' = Append(fixCodes, 0)
    /\ random_instruction' = <<>>
    /\ message' = <<>>
    /\ error_summary' = <<>>
    /\ i' = i + 2
    /\ pc' = "loop"
    /\ UNCHANGED <<config, helper, result, log, fs, state, notice, exitStatus,
                   tests, fixes, testCodes>>

\* aider exited with code zero: run_aider returns, next pass of the loop
AiderSucceeds ==
    /\ pc = "aider"
    /\ fixCodes' = Append(fixCodes, 0)
    /\ random_instruction' = <<>>
    /\ message' = <<>>
    /\ error_summary' = <<>>
    /\ i' = i + 1
    /\ pc' = "loop"
    /\ UNCHANGED <<config, helper, result, log, fs, state, notice, exitStatus,
                   tests, fixes, testCodes>>

\* as AiderFails, without check=True: the failure is not raised
AiderFails_NotRaised ==
    /\ pc = "aider"
    /\ \E o \in AiderOutcomes \ {0} : fixCodes' = Append(fixCodes, o)
    /\ random_instruction' = <<>>
    /\ message' = <<>>
    /\ error_summary' = <<>>
    /\ i' = i + 1
    /\ pc' = "loop"
    /\ UNCHANGED <<config, helper, result, log, fs, state, notice, exitStatus,
                   tests, fixes, testCodes>>

\* aider exited non-zero (CalledProcessError, check=True) or could not be
\* started (OSError): the exception leaves main() and ends the process
AiderFails ==
    /\ pc = "aider"
    /\ \E o \in AiderOutcomes \ {0} : fixCodes' = Append(fixCodes, o)
    /\ random_instruction' = <<>>
    /\ message' = <<>>
    /\ error_summary' = <<>>
    /\ state' = "FIX_FAILED"
    /\ exitStatus' = 1
    /\ pc' = "done"
    /\ UNCHANGED <<config, helper, i, result, log, fs, notice,
                   tests, fixes, testCodes>>

\* as TestPassed, without the break: success is printed, the loop goes on
TestPassed_NoBreak ==
    /\ pc = "check"
    /\ result.returncode = 0
    /\ notice' = "succeeded"
    /\ i' = i + 1
    /\ pc' = "loop"
    /\ UNCHANGED <<config, helper, error_summary, result, log, fs, random_instruction, message,
                   state, exitStatus, history>>

\* as TestPassed, taking only exit code 1 for a failure
TestPassed_OnlyCodeOneFails ==
    /\ pc = "check"
    /\ result.returncode # 1
    /\ notice' = "succeeded"
    /\ state' = "SUCCEEDED"
    /\ exitStatus' = 0
    /\ pc' = "done"
    /\ UNCHANGED <<config, helper, error_summary, i, result, log, fs, random_instruction, message,
                   history>>

\* result.returncode == 0: success is printed and the loop is left by break
TestPassed ==
    /\ pc = "check"
    /\ result.returncode = 0
    /\ notice' = "succeeded"
    /\ state' = "SUCCEEDED"
    /\ exitStatus' = 0
    /\ pc' = "done"
    /\ UNCHANGED <<config, helper, error_summary, i, result, log, fs, random_instruction, message,
                   history>>

\* as LoopExhausted, leaving with sys.exit(1)
LoopExhausted_ExitsNonZero ==
    /\ pc = "loop"
    /\ ~(i < RangeLen(MAX_ITERATIONS))
    /\ notice' = "exhausted"
    /\ state' = "EXHAUSTED"
    /\ exitStatus' = 1
    /\ pc' = "done"
    /\ UNCHANGED <<config, helper, error_summary, i, result, log, fs, random_instruction, message,
                   history>>

\* the else branch of the for loop: range(MAX_ITERATIONS) is used up
LoopExhausted ==
    /\ pc = "loop"
    /\ ~(i < RangeLen(MAX_ITERATIONS))
    /\ notice' = "exhausted"
    /\ state' = "EXHAUSTED"
    /\ exitStatus' = 0
    /\ pc' = "done"
    /\ UNCHANGED <<config, helper, error_summary, i, result, log, fs, random_instruction, message,
                   history>>

Next ==
    \/ StartIteration
    \/ PytestReturns
    \/ WriteLog
    \/ TestFailed
    \/ AiderSucceeds
    \/ AiderFails
    \/ TestPassed
    \/ LoopExhausted

Spec == Init /\ [][Next]_vars

\* --------------------------------------------- the helper functions alone
\* lines a text may be made of: with and without the markers that
\* get_error_summary looks for
LinePool ==
    { <<>>,
      <<"b">>,
      <<"F", "A", "I", "L", "E", "D">>,
      <<"E", "R", "R", "O", "R", "b">>,
      <<"b", "F", "A", "I", "L", "E", "D">>,
      <<"=", "=", "=">>,
      <<"=", "=", "=", "F", "a", "i", "l", "e", "d">>,
      <<"F", "A", "I", "L", "E", "D", "=", "=", "=">> }

\* texts of up to MaxLines lines, with and without a final line break
Texts ==
    { JoinLines(ls) \o end :
        ls \in UNION { [1..k -> LinePool] : k \in 0..MaxLines },
        end \in { <<>>, <<NL>> } }

\* values of args.tail_lines
TailCounts == -1..MaxTail

HelperInit ==
    /\ MAX_ITERATIONS = 0
    /\ MAX_MESSAGE_LENGTH = 0
    /\ pc = "helper"
    /\ i = 0
    /\ result = NoResult
    /\ log = <<>>
    /\ fs = {}
    /\ random_instruction = <<>>
    /\ message = <<>>
    /\ state = "RUNNING"
    /\ notice = "none"
    /\ exitStatus = Unset
    /\ tests = 0
    /\ fixes = 0
    /\ testCodes = <<>>
    /\ fixCodes = <<>>
    /\ error_summary = <<>>
    /\ fn = "none"
    /\ fn_text \in Texts
    /\ fn_n \in TailCounts
    /\ fn_out = <<>>

main == <<config, pc, i, result, log, fs, random_instruction, message, state,
          notice, exitStatus, history, error_summary>>

\* get_tail(fn_text, fn_n) is called and returns
CallGetTail ==
    /\ pc = "helper"
    /\ fn = "none"
    /\ fn' = "get_tail"
    /\ fn_out' = get_tail(fn_text, fn_n)
    /\ UNCHANGED <<main, fn_text, fn_n>>

\* get_error_summary is called on a result whose stdout is fn_text
CallGetErrorSummary ==
    /\ pc = "helper"
    /\ fn = "none"
    /\ fn' = "get_error_summary"
    /\ fn_out' = get_error_summary([stdout |-> fn_text, stderr |-> <<>>,
                                     returncode |-> 1])
    /\ UNCHANGED <<main, fn_text, fn_n>>

HelperNext ==
    \/ CallGetTail
    \/ CallGetErrorSummary

HelperSpec == HelperInit /\ [][HelperNext]_vars

\* The runs of the tool for every iteration budget, with the message cap at
\* either end of its range, no log and no history directory at the start.
FairInit ==
    /\ Init
    /\ MAX_MESSAGE_LENGTH \in {0, MaxMsgLen}
    /\ log = <<>>
    /\ fs = {}

\* a single sequential process whose child processes terminate: a step that
\* is possible is eventually taken
FairSpec == FairInit /\ [][Next]_vars /\ WF_vars(Next)

\* ----------------------------------------------------------------- claims
\* what run_aider assembled before trimming, while run_aider is active
Assembled ==
    AssembleMessage(PytestOutput(result), get_error_summary(result),
                    random_instruction)

IsSuffix(t, s) == Len(t) <= Len(s) /\ SubSeq(s, Len(s) - Len(t) + 1, Len(s)) = t

AllZero(codes) == \A k \in 1..Len(codes) : codes[k] = 0
NoneZero(codes) == \A k \in 1..Len(codes) : codes[k] # 0
Last(codes) == codes[Len(codes)]

\* C1: under FairSpec every run of main() reaches a terminal position, there
\* in exactly one of SUCCEEDED, FIX_FAILED, EXHAUSTED (RUNNING before it, and
\* the terminal state is never left), and pytest and aider are each invoked
\* at most N times, N the number of passes range(MAX_ITERATIONS) allows.
C1_Termination ==
    /\ <>(pc = "done")
    /\ [](pc = "done" <=> state \in {"SUCCEEDED", "FIX_FAILED", "EXHAUSTED"})
    /\ [](pc # "done" <=> state = "RUNNING")
    /\ [](tests <= RangeLen(MAX_ITERATIONS) /\ fixes <= RangeLen(MAX_ITERATIONS))
    /\ [][state # "RUNNING" => UNCHANGED <<state, tests, fixes>>]_vars

C1_Witness ==
    /\ pc = "done"
    /\ state = "FIX_FAILED"
    /\ MAX_ITERATIONS = 2
    /\ tests = 2
    /\ fixes = 2

\* C2: a finished run in which every pytest run exited non-zero and every
\* aider run exited zero made exactly N pytest and exactly N aider
\* invocations and ended in EXHAUSTED with the exhaustion notice printed.
C2_BudgetExhaustion ==
    (pc = "done" /\ NoneZero(testCodes) /\ AllZero(fixCodes)) =>
        /\ tests = RangeLen(MAX_ITERATIONS)
        /\ fixes = RangeLen(MAX_ITERATIONS)
        /\ Len(testCodes) = tests
        /\ Len(fixCodes) = fixes
        /\ i = RangeLen(MAX_ITERATIONS)
        /\ state = "EXHAUSTED"
        /\ notice = "exhausted"

C2_Witness ==
    /\ pc = "done"
    /\ state = "EXHAUSTED"
    /\ MAX_ITERATIONS = 3
    /\ testCodes = <<1, 2, 1>>
    /\ fixCodes = <<0, 0, 0>>

\* position of the first zero in a sequence of exit codes, 0 when none
FirstZero(codes) ==
    IF \E k \in 1..Len(codes) : codes[k] = 0
    THEN CHOOSE k \in 1..Len(codes) : codes[k] = 0 /\ \A j \in 1..(k - 1) : codes[j] # 0
    ELSE 0

\* C3: once pytest has exited zero for the first time, on its (k+1)-th run,
\* with no aider run having failed, exactly k+1 pytest runs and k aider runs
\* have been and will ever be made, and the run ends in SUCCEEDED with the
\* success report.
C3_SuccessAfterFailures ==
    (FirstZero(testCodes) # 0 /\ AllZero(fixCodes)) =>
        /\ tests = FirstZero(testCodes)
        /\ Len(testCodes) = FirstZero(testCodes)
        /\ fixes = FirstZero(testCodes) - 1
        /\ Len(fixCodes) = fixes
        /\ tests <= MAX_ITERATIONS
        /\ pc \in {"write", "check", "done"}
        /\ pc = "done" => (state = "SUCCEEDED" /\ notice = "succeeded")

C3_Witness ==
    /\ pc = "done"
    /\ state = "SUCCEEDED"
    /\ MAX_ITERATIONS = 3
    /\ testCodes = <<2, 1, 0>>
    /\ tests = 3
    /\ fixes = 2

C3_WitnessImmediate ==
    /\ pc = "done"
    /\ state = "SUCCEEDED"
    /\ testCodes = <<0>>
    /\ fixes = 0

\* C4: an aider run that exits non-zero or cannot be started is the last
\* child process of the run: the controller is in FIX_FAILED at its terminal
\* position, with as many pytest runs and aider runs as the failing fix's
\* iteration number, and no invocation follows; when it is the first fix
\* that fails, that is 1 pytest run and 1 aider run, still in the first pass.
C4_FatalFixFailure ==
    /\ [](\A k \in 1..Len(fixCodes) : fixCodes[k] # 0 =>
            /\ k = Len(fixCodes)
            /\ pc = "done"
            /\ state = "FIX_FAILED"
            /\ tests = k
            /\ fixes = k
            /\ i = k - 1)
    /\ [](state = "FIX_FAILED" => (fixCodes # <<>> /\ Last(fixCodes) # 0))
    /\ [][state = "FIX_FAILED" => UNCHANGED <<tests, fixes, state, pc>>]_vars

C4_Witness ==
    /\ state = "FIX_FAILED"
    /\ fixCodes = <<NoLaunch>>
    /\ MAX_ITERATIONS = 3
    /\ tests = 1
    /\ fixes = 1

\* C5: SUCCEEDED is entered only from the examination of a pytest result
\* whose exit code is zero, and a zero exit code is the last invocation of
\* the run: no pytest or aider run is started after it, and SUCCEEDED is
\* never left.
C5_SucceededOnlyAfterZero ==
    /\ [](state = "SUCCEEDED" =>
            /\ pc = "done"
            /\ testCodes # <<>>
            /\ Last(testCodes) = 0
            /\ result.returncode = 0)
    /\ [](\A k \in 1..Len(testCodes) : testCodes[k] = 0 => k = Len(testCodes))
    /\ [][(state # "SUCCEEDED" /\ state' = "SUCCEEDED") =>
            (pc = "check" /\ result.returncode = 0)]_vars
    /\ [][(testCodes # <<>> /\ Last(testCodes) = 0) =>
            UNCHANGED <<tests, fixes, testCodes, fixCodes>>]_vars
    /\ [][state = "SUCCEEDED" => state' = "SUCCEEDED"]_vars

C5_Witness ==
    /\ state = "SUCCEEDED"
    /\ testCodes = <<1, 0>>
    /\ MAX_ITERATIONS = 3
    /\ fixes = 1

C7_LogOverwrite ==
    /\ []((pc \in {"check", "aider", "loop", "done"} /\ tests >= 1) =>
            log = result.stdout \o result.stderr)
    /\ []((pc = "pytest" /\ tests >= 2) => log = result.stdout \o result.stderr)
    /\ []((pc \in {"pytest", "write"} /\ tests = 1) => log \in InitialLogs)
    /\ [][pc = "write" => log' = result.stdout \o result.stderr]_vars
    /\ [][pc # "write" => log' = log]_vars

C7_Witness ==
    /\ pc = "check"
    /\ tests = 2
    /\ testCodes = <<1, 1>>
    /\ log = <<"o", "k", NL, "w", NL>>

\* C8: while aider runs with a message cap L >= 0 and an assembled message
\* longer than L, the message passed has at most L characters.
C8_PromptLengthCap ==
    (pc = "aider" /\ MAX_MESSAGE_LENGTH >= 0 /\ Len(Assembled) > MAX_MESSAGE_LENGTH) =>
        Len(message) <= MAX_MESSAGE_LENGTH

\* the message passed starts at offset d of the assembled one
StartsAtOffset(d) == SubSeq(Assembled, d + 1, Len(Assembled)) = message

\* C9: while aider runs with a trimmed message, the first character of the
\* message passed is the first character of the assembled message or follows
\* a line break of the assembled message.
C9_PromptLineAligned ==
    (pc = "aider" /\ Len(Assembled) > MAX_MESSAGE_LENGTH /\ message # <<>>) =>
        \E d \in 0..(Len(Assembled) - 1) :
            /\ Len(message) = Len(Assembled) - d
            /\ StartsAtOffset(d)
            /\ (d = 0 \/ Assembled[d] = NL)

\* C10: while aider runs, the message passed is a suffix of the assembled
\* message, and is the assembled message itself when that is no longer than
\* the message cap.
C10_PromptSuffix ==
    pc = "aider" =>
        /\ IsSuffix(message, Assembled)
        /\ Len(Assembled) <= MAX_MESSAGE_LENGTH => message = Assembled

C10_Witness ==
    /\ pc = "aider"
    /\ Len(Assembled) > MAX_MESSAGE_LENGTH
    /\ MAX_MESSAGE_LENGTH = 12
    /\ message # <<>>
    /\ Len(message) < Len(Assembled)

C10_WitnessUntrimmed ==
    /\ pc = "aider"
    /\ Len(Assembled) <= MAX_MESSAGE_LENGTH
    /\ message = Assembled

\* the lines of a sequence that satisfy P, in their order
Picked(lines, P(_)) ==
    LET idx == {k \in 1..Len(lines) : P(lines[k])}
        Nth(j) == CHOOSE k \in idx : Cardinality({m \in idx : m <= k}) = j
    IN  [j \in 1..Cardinality(idx) |-> lines[Nth(j)]]

\* the line begins with FAILED or with ERROR
BeginsWithMarker(line) ==
    \E marker \in { <<"F", "A", "I", "L", "E", "D">>, <<"E", "R", "R", "O", "R">> } :
        \A k \in 1..Len(marker) : Len(line) >= k /\ line[k] = marker[k]

\* the line holds === and, in any mix of cases, the word failed
HasDividerAndFailed(line) ==
    /\ \E p \in 1..(Len(line) - 2) : \A k \in 0..2 : line[p + k] = "="
    /\ \E p \in 1..(Len(line) - 5) :
          \A k \in 1..6 :
             line[p + k - 1] \in { <<"f", "a", "i", "l", "e", "d">>[k],
                                   <<"F", "A", "I", "L", "E", "D">>[k] }

\* C11: get_error_summary returns the lines of its text that begin with
\* FAILED or ERROR, in their order, followed by the lines that hold === and
\* (in any case) failed, in their order, joined by line breaks; no other line
\* is in it, and it is empty when no line is of either kind.
C11_ErrorSummaryContent ==
    fn = "get_error_summary" =>
        LET lines == SplitLines(fn_text)
        IN  /\ fn_out = JoinLines(Picked(lines, BeginsWithMarker)
                                  \o Picked(lines, HasDividerAndFailed))
            /\ \A k \in 1..Len(SplitLines(fn_out)) :
                  \E j \in 1..Len(lines) :
                     /\ lines[j] = SplitLines(fn_out)[k]
                     /\ BeginsWithMarker(lines[j]) \/ HasDividerAndFailed(lines[j])
            /\ (\A j \in 1..Len(lines) :
                   ~BeginsWithMarker(lines[j]) /\ ~HasDividerAndFailed(lines[j]))
               => fn_out = <<>>

C11_Witness ==
    /\ fn = "get_error_summary"
    /\ Len(SplitLines(fn_text)) = 3
    /\ SplitLines(fn_text)[1] = <<"=", "=", "=", "F", "a", "i", "l", "e", "d">>
    /\ SplitLines(fn_text)[2] = <<"b">>
    /\ fn_out = <<"E", "R", "R", "O", "R", "b", NL,
                  "=", "=", "=", "F", "a", "i", "l", "e", "d">>

C11_WitnessEmpty ==
    /\ fn = "get_error_summary"
    /\ Len(SplitLines(fn_text)) = 2
    /\ fn_out = <<>>

\* the lines of a sequence of lines, as a set
LineSet(lines) == {lines[k] : k \in 1..Len(lines)}

\* C12: while aider runs, the error summary run_aider was given holds every
\* line beginning with FAILED or ERROR that the failing pytest run wrote to
\* its standard output or to its standard error.
C12_SummaryFromBothStreams ==
    pc = "aider" =>
        \A line \in LineSet(SplitLines(result.stdout))
                    \cup LineSet(SplitLines(result.stderr)) :
            BeginsWithMarker(line) => line \in LineSet(SplitLines(error_summary))

\* the lines of the text given to the helper function
FnLines == SplitLines(fn_text)

\* C13: for a line count n >= 0 and a text of n or more lines, get_tail
\* returns exactly the last n lines of the text joined by line breaks.
C13_TailOfLongText ==
    (fn = "get_tail" /\ fn_n >= 0 /\ Len(FnLines) >= fn_n) =>
        fn_out = JoinLines([k \in 1..fn_n |-> FnLines[Len(FnLines) - fn_n + k]])

WithoutFinalBreak(text) ==
    IF text # <<>> /\ text[Len(text)] = NL
    THEN SubSeq(text, 1, Len(text) - 1)
    ELSE text

C15_HistoryTargetsExist ==
    pc = "aider" => (HistoryDir \in fs /\ HistoryFiles \subseteq fs)

\* C15 as amended: while aider runs the history directory exists; the only
\* change the program makes to the paths is to add that directory when it
\* starts aider, so each of the three files exists then only if it existed
\* before the call.
C15_HistoryDirExists ==
    /\ [](pc = "aider" => HistoryDir \in fs)
    /\ [][fs' # fs =>
            (pc = "check" /\ pc' = "aider" /\ HistoryDir \notin fs
             /\ fs' = fs \cup {HistoryDir})]_vars
    /\ [][fs' \cap HistoryFiles = fs \cap HistoryFiles]_vars

C15_Witness ==
    /\ pc = "aider"
    /\ fixes = 1
    /\ fs = {HistoryDir}

C15_WitnessFilesKept ==
    /\ pc = "aider"
    /\ fixes = 2
    /\ fs = {HistoryDir} \cup HistoryFiles

\* child processes started and not yet returned
InProgress == (tests - Len(testCodes)) + (fixes - Len(fixCodes))

\* C16: at most one child process is in progress; an aider run is started
\* only when no child is in progress and the pytest run of the same pass has
\* returned non-zero; a pytest run is started only when no child is in
\* progress and, after the first, the aider run of the pass before has
\* returned zero; so fixes <= tests <= fixes + 1 and tests is at most the
\* number of passes the budget allows.
C16_StrictSequencing ==
    /\ [](InProgress \in {0, 1} /\ Len(testCodes) <= tests /\ Len(fixCodes) <= fixes)
    /\ [](InProgress = 1 <=> pc \in {"pytest", "aider"})
    /\ [](fixes <= tests /\ tests <= fixes + 1 /\ tests <= RangeLen(MAX_ITERATIONS))
    /\ [][tests' # tests =>
            /\ tests' = tests + 1
            /\ InProgress = 0
            /\ fixes = tests
            /\ tests = 0 \/ Last(fixCodes) = 0]_vars
    /\ [][fixes' # fixes =>
            /\ fixes' = fixes + 1
            /\ InProgress = 0
            /\ tests = fixes + 1
            /\ Last(testCodes) # 0]_vars

C16_Witness ==
    /\ pc = "aider"
    /\ InProgress = 1
    /\ tests = 3
    /\ fixes = 3
    /\ fixCodes = <<0, 0>>

\* C17: in EXHAUSTED the loop variable has used up the budget, the run is
\* over with the exhaustion notice and exit status 0, and what happened is
\* exactly N pytest runs, all non-zero, each followed by an aider run that
\* returned zero (so the last child process was a fix, not a test); with a
\* budget N <= 0 nothing is ever invoked and the only terminal state is
\* EXHAUSTED.
C17_ExhaustedOnlyAfterBudget ==
    /\ state = "EXHAUSTED" =>
          /\ pc = "done"
          /\ notice = "exhausted"
          /\ exitStatus = 0
          /\ i >= MAX_ITERATIONS
          /\ MAX_ITERATIONS > 0 => (tests = MAX_ITERATIONS /\ i = MAX_ITERATIONS)
          /\ fixes = tests
          /\ Len(testCodes) = tests
          /\ Len(fixCodes) = fixes
          /\ NoneZero(testCodes)
          /\ AllZero(fixCodes)
    /\ MAX_ITERATIONS <= 0 =>
          /\ tests = 0
          /\ fixes = 0
          /\ pc \in {"loop", "done"}
          /\ state \in {"RUNNING", "EXHAUSTED"}
          /\ pc = "done" => (state = "EXHAUSTED" /\ notice = "exhausted" /\ exitStatus = 0)

C17_Witness ==
    /\ state = "EXHAUSTED"
    /\ MAX_ITERATIONS = 3
    /\ testCodes = <<2, 2, 1>>
    /\ fixCodes = <<0, 0, 0>>
    /\ i = 3

C17_WitnessNoBudget ==
    /\ state = "EXHAUSTED"
    /\ MAX_ITERATIONS = -1
    /\ tests = 0
    /\ fixes = 0

\* C18: when the exit code of a pytest run is examined, and so whenever
\* aider is started or running, pytest_output.txt already holds the output
\* of that run; at the end of a run that made at least one pytest run the
\* file holds the output of the last pytest run; starting, running and
\* ending an aider run leaves the file as it is.
C18_LogBeforeFix ==
    /\ [](pc \in {"check", "aider"} =>
            (log = result.stdout \o result.stderr
             /\ result.returncode = Last(testCodes)))
    /\ [](pc = "aider" => result.returncode # 0)
    /\ []((pc = "done" /\ tests >= 1) =>
            (log = result.stdout \o result.stderr
             /\ Len(testCodes) = tests
             /\ result.returncode = Last(testCodes)))
    /\ [][fixes' # fixes => (log = result.stdout \o result.stderr /\ log' = log)]_vars
    /\ [][(pc = "aider" \/ pc' = "aider") => log' = log]_vars

C18_Witness ==
    /\ pc = "aider"
    /\ tests = 2
    /\ result.stderr = <<"w", NL>>
    /\ log = <<"=", "=", "=", "F", "a", "i", "l", "e", "d", NL, "w", NL>>

\* the hints of INSTRUCTION_LIST, as a set
InstructionPool == {INSTRUCTION_LIST[k] : k \in 1..Len(INSTRUCTION_LIST)}

\* C19: while aider runs, the hint is one of INSTRUCTION_LIST, the assembled
\* message ends with the closing sentence, a blank line and that hint, and
\* with a message cap greater than the length of the hint the message passed
\* to aider, trimmed or not, ends with the whole hint.
C19_HintSurvivesTrimming ==
    pc = "aider" =>
        /\ random_instruction \in InstructionPool
        /\ IsSuffix(<<"m", NL, NL>> \o random_instruction, Assembled)
        /\ MAX_MESSAGE_LENGTH > Len(random_instruction) =>
              IsSuffix(random_instruction, message)

C19_Witness ==
    /\ pc = "aider"
    /\ MAX_MESSAGE_LENGTH = 4
    /\ random_instruction = <<"p", "a", "t">>
    /\ message = <<"p", "a", "t">>

C19_WitnessLongerTail ==
    /\ pc = "aider"
    /\ MAX_MESSAGE_LENGTH = 6
    /\ random_instruction = <<"t", "e">>
    /\ message = <<NL, "t", "e">>
====
